---- MODULE Spec2Model ----
(***************************************************************************)
(* Model of the rps-network scripts:                                       *)
(*   - deprecated/full_network_scraper.py : CrawlManager (breadth-first    *)
(*     crawl that fills an in-memory DiGraph and the website_links table), *)
(*   - visualize_from_db.py : create_graph_from_duckdb (rebuilds a DiGraph *)
(*     from the rows of website_links).                                    *)
(* URLs are the integers 1..NumUrls; the web is the environment: what a    *)
(* page links to is decided when it is fetched (every page is fetched at   *)
(* most once, so this is the same as fixing the link graph beforehand).    *)
(***************************************************************************)
EXTENDS Integers, Sequences, FiniteSets

\* ---------------------------------------------------------------- bounds
NumUrls == 4          \* URLs the crawled web can mention
MaxLinks == 2         \* links one fetched page can return
MaxWebLinks == 3      \* links on all the pages of the crawled web together
NumStoredUrls == 2    \* URLs a pre-existing website_links table can mention
MaxStoredDepth == 1   \* largest crawl_depth in a pre-existing table
MaxRows == 3          \* rows in a pre-existing table
MaxHrefs == 2         \* <a href> tags on the page given to the link extraction

\* ------------------------------------------------------ program constants
START_URL == 1
MAX_CRAWL_DEPTH == 2

URLs == 1..NumUrls
StoredUrls == 1..NumStoredUrls

\* Attribute value of a node that add_edge created without a depth.
NoDepth == -1

\* create_graph_from_duckdb returning None.
NoGraph == [depth |-> <<>>, adj |-> <<>>, none |-> TRUE]

VARIABLES
    pc,             \* "idle" | "crawl" | "done" | "shown" | "exited" | "aborted"
    max_depth,      \* CrawlManager.max_depth
    visited_urls,   \* CrawlManager.visited_urls
    urls_to_visit,  \* CrawlManager.urls_to_visit, a deque of <<url, depth>>
    graph,          \* CrawlManager.graph (nx.DiGraph)
    db,             \* rows of the website_links table in DB_FILE
    fetch_log,      \* history: URLs passed to _get_links_from_page, in order
    failed,         \* history: URLs whose fetch raised RequestException
    dequeued_depth, \* history: depth of the entry popleft() returned last
    links_seen,     \* history: links the fetched pages returned so far
    vis_graph,      \* result of create_graph_from_duckdb
    vis_origin,     \* history: "none" | "stored" | "crawl", what db held when read
    page_url,       \* get_links_from_single_page: url
    page_hrefs,     \* the href values of the <a> tags of the fetched page
    page_links      \* the set links the extraction returns

vars == <<pc, max_depth, visited_urls, urls_to_visit, graph, db, fetch_log,
          failed, dequeued_depth, links_seen, vis_graph, vis_origin,
          page_url, page_hrefs, page_links>>

urlVars == <<page_url, page_hrefs, page_links>>

\* ------------------------------------------------------------ nx.DiGraph
\* depth: node -> depth attribute (NoDepth when the node has none);
\* adj: the edges in insertion order.
EmptyGraph == [depth |-> <<>>, adj |-> <<>>, none |-> FALSE]

HasNode(g, n) == n \in DOMAIN g.depth

Nodes(g) == DOMAIN g.depth

Edges(g) == {g.adj[i] : i \in 1..Len(g.adj)}

\* graph.add_node(n, depth=d): creates the node or updates its attribute.
AddNode(g, n, d) ==
    [g EXCEPT !.depth = [x \in (DOMAIN g.depth) \cup {n} |->
                            IF x = n THEN d ELSE g.depth[x]]]

\* add_edge creates missing endpoints without attributes.
EnsureNode(g, n) == IF HasNode(g, n) THEN g ELSE AddNode(g, n, NoDepth)

\* A MultiDiGraph-like add_edge that keeps every parallel edge.
AddEdgeParallel(g, s, t) ==
    [EnsureNode(EnsureNode(g, s), t) EXCEPT !.adj = Append(@, <<s, t>>)]

\* graph.add_edge(s, t): a DiGraph holds at most one edge per (s, t).
AddEdge(g, s, t) ==
    LET g2 == EnsureNode(EnsureNode(g, s), t)
    IN IF <<s, t>> \in Edges(g2) THEN g2
       ELSE [g2 EXCEPT !.adj = Append(@, <<s, t>>)]

\* ---------------------------------------------------------- the crawler
\* The lists list(links) can be: no URL twice, any order.
LinkLists ==
    UNION {{s \in [1..n -> URLs] : \A i, j \in 1..n : i # j => s[i] # s[j]}
             : n \in 0..MaxLinks}

\* What requests.get can do: raise RequestException, or give a page.
Responses == {[ok |-> FALSE, links |-> <<>>]}
             \cup {[ok |-> TRUE, links |-> l] : l \in LinkLists}

\* A fetch whose RequestException is not caught.
FetchOutcomeUncaught(resp) ==
    IF resp.ok THEN [raised |-> FALSE, links |-> resp.links]
    ELSE [raised |-> TRUE, links |-> <<>>]

\* _get_links_from_page: a RequestException is caught and [] returned.
FetchOutcome(resp) ==
    IF resp.ok THEN [raised |-> FALSE, links |-> resp.links]
    ELSE [raised |-> FALSE, links |-> <<>>]

\* pop() from the right end.
PopRight(q) == <<q[Len(q)], SubSeq(q, 1, Len(q) - 1)>>

\* q[0] without removing it.
PopLeftPeek(q) == <<Head(q), q>>

\* deque.popleft(): <<the entry, the rest>>.
PopLeft(q) == <<Head(q), Tail(q)>>

\* The skip test without its visited_urls half.
SkipIgnoresVisited(url, depth) == depth > max_depth

\* The skip test without its max_depth half.
SkipIgnoresDepth(url, depth) == url \in visited_urls

\* line 84: the entry is dropped without a fetch.
ShouldSkip(url, depth) == url \in visited_urls \/ depth > max_depth

\* append without the visited_urls test.
EnqueueAlways(link, visited) == TRUE

\* line 101: the only test before append.
ShouldEnqueue(link, visited) == link \notin visited

\* A discovered link given its parent's depth.
SameDepth(d) == d

\* A discovered link counted two hops from its parent.
DepthPlusTwo(d) == d + 2

\* line 102: the depth given to a discovered link.
NextDepth(d) == d + 1

\* lines 97-102: the loop over found_links.
RECURSIVE ForLinks(_, _, _, _, _)
ForLinks(links, cur, d, visited, st) ==
    IF links = <<>> THEN st
    ELSE LET link == Head(links)
         IN ForLinks(Tail(links), cur, d, visited,
                [graph |-> AddEdge(st.graph, cur, link),
                 rows |-> Append(st.rows, <<cur, link, d>>),
                 queue |-> IF ShouldEnqueue(link, visited)
                           THEN Append(st.queue, <<link, NextDepth(d)>>)
                           ELSE st.queue])

\* ------------------------------------------ create_graph_from_duckdb
\* line 48: rows of a table without the crawl_depth column have two fields.
CrawlDepth(row) == IF Len(row) > 2 THEN row[3] ELSE 0

\* lines 51-52.
AddSourceNode(g, s, d) == IF ~HasNode(g, s) THEN AddNode(g, s, d) ELSE g

\* The target's depth is overwritten by every row that names it.
AddTargetNodeLastWins(g, t, d) == AddNode(g, t, d + 1)

\* lines 53-64: the inner test repeats the outer one, so its else branch
\* (the update to a shallower depth) is never taken.
AddTargetNode(g, t, d) ==
    IF ~HasNode(g, t)
    THEN IF ~HasNode(g, t)
         THEN AddNode(g, t, d + 1)
         ELSE IF d + 1 < g.depth[t] THEN AddNode(g, t, d + 1) ELSE g
    ELSE g

\* lines 45-68: one iteration of the loop over data.
AddRow(g, row) ==
    LET s == row[1]
        t == row[2]
        d == CrawlDepth(row)
    IN AddEdge(AddTargetNode(AddSourceNode(g, s, d), t, d), s, t)

RECURSIVE LoadRows(_, _)
LoadRows(data, g) ==
    IF data = <<>> THEN g ELSE LoadRows(Tail(data), AddRow(g, Head(data)))

\* lines 71-72.
ForceStartDepth(g, start_url) ==
    IF HasNode(g, start_url) THEN AddNode(g, start_url, 0) ELSE g

CreateGraph(data, start_url) ==
    ForceStartDepth(LoadRows(data, EmptyGraph), start_url)

\* ------------------------------------------------------ link extraction
\* A URL or URL reference as urlparse splits it: scheme, netloc, path, query,
\* fragment ("" when absent).  A path is absolute or not and has segments;
\* the empty path is the relative path without segments.
NoPath == [abs |-> FALSE, segs |-> <<>>]

HrefPaths == {NoPath,
              [abs |-> TRUE, segs |-> <<>>],
              [abs |-> TRUE, segs |-> <<"a">>],
              [abs |-> FALSE, segs |-> <<"a">>]}

\* The href values of the model: every combination that is the split of some
\* string (a netloc is followed by an absolute path or none; mailto has none).
Hrefs ==
    {h \in [scheme : {"", "http", "https", "ftp", "mailto"},
            host : {"", "g"},
            path : HrefPaths,
            query : {"", "q"},
            fragment : {"", "f"}] :
        /\ (h.host # "" => (h.path.abs \/ h.path = NoPath))
        /\ (h.scheme = "mailto" => h.host = "")}

\* The pages the extraction is called on: one with a path, one without.
PageUrls ==
    {[scheme |-> "http", host |-> "h", path |-> [abs |-> TRUE, segs |-> <<"d", "p">>],
      query |-> "bq", fragment |-> ""],
     [scheme |-> "https", host |-> "h", path |-> NoPath, query |-> "", fragment |-> ""]}

\* urllib.parse.uses_relative and uses_netloc, cut to the schemes of the model.
UsesRelative == {"", "http", "https", "ftp"}
UsesNetloc == {"", "http", "https", "ftp"}

\* The empty string.
IsEmptyRef(r) ==
    r.scheme = "" /\ r.host = "" /\ r.path = NoPath /\ r.query = "" /\ r.fragment = ""

\* urljoin's path resolution: an absolute path replaces the base's, a
\* relative one replaces its last segment.
ResolvePath(bpath, rpath) ==
    IF rpath.abs THEN rpath
    ELSE [abs |-> TRUE,
          segs |-> (IF bpath.segs = <<>> THEN <<>>
                    ELSE SubSeq(bpath.segs, 1, Len(bpath.segs) - 1)) \o rpath.segs]

\* urllib.parse.urljoin(base, url).
UrlJoin(base, ref) ==
    IF IsEmptyRef(ref) THEN base
    ELSE LET scheme == IF ref.scheme = "" THEN base.scheme ELSE ref.scheme
         IN IF scheme # base.scheme \/ scheme \notin UsesRelative THEN ref
            ELSE IF scheme \in UsesNetloc /\ ref.host # ""
                 THEN [ref EXCEPT !.scheme = scheme]
            ELSE IF ref.path = NoPath
                 THEN [scheme |-> scheme, host |-> base.host, path |-> base.path,
                       query |-> IF ref.query = "" THEN base.query ELSE ref.query,
                       fragment |-> ref.fragment]
            ELSE [scheme |-> scheme, host |-> base.host,
                  path |-> ResolvePath(base.path, ref.path),
                  query |-> ref.query, fragment |-> ref.fragment]

\* parsed_url.path handed to urljoin as its url argument: a string holding a
\* path only.
PathRef(path) ==
    [scheme |-> "", host |-> "", path |-> path, query |-> "", fragment |-> ""]

\* scrape_rps.py lines 26-33 for one <a> tag: the set of links it adds.
ExtractLink(url, href) ==
    LET absolute_url == UrlJoin(url, href)
    IN IF absolute_url.scheme \in {"http", "https"} /\ absolute_url.host # ""
       THEN {UrlJoin(absolute_url, PathRef(absolute_url.path))}
       ELSE {}

\* lines 22-34: the loop over the <a> tags, hrefs in document order.
GetLinks(url, hrefs) == UNION {ExtractLink(url, hrefs[i]) : i \in 1..Len(hrefs)}

\* ------------------------------------------------------------- the state
SeqsUpTo(S, n) == UNION {[1..k -> S] : k \in 0..n}

\* A website_links table found on disk: with or without the crawl_depth column.
RowsWithDepth == {<<s, t, d>> : s \in StoredUrls, t \in StoredUrls, d \in 0..MaxStoredDepth}
RowsNoDepth == {<<s, t>> : s \in StoredUrls, t \in StoredUrls}
StoredTables == SeqsUpTo(RowsWithDepth, MaxRows) \cup SeqsUpTo(RowsNoDepth, MaxRows)

Init ==
    /\ pc = "idle"
    /\ max_depth = 0
    /\ visited_urls = {}
    /\ urls_to_visit = <<>>
    /\ graph = EmptyGraph
    /\ db \in StoredTables
    /\ fetch_log = <<>>
    /\ failed = {}
    /\ dequeued_depth = 0
    /\ links_seen = 0
    /\ vis_graph = EmptyGraph
    /\ vis_origin = "none"
    /\ page_url \in {u \in PageUrls : u.scheme = "http"}
    /\ page_hrefs = <<>>
    /\ page_links = {}

crawlVars == <<max_depth, visited_urls, urls_to_visit, graph, fetch_log, failed,
               dequeued_depth, links_seen>>

\* __main__ of full_network_scraper.py up to crawler.crawl(): the old DB file
\* is removed, the table created, the deque seeded.
StartCrawl(md) ==
    /\ pc = "idle"
    /\ pc' = "crawl"
    /\ max_depth' = md
    /\ visited_urls' = {}
    /\ urls_to_visit' = << <<START_URL, 0>> >>
    /\ graph' = EmptyGraph
    /\ db' = <<>>
    /\ UNCHANGED <<fetch_log, failed, dequeued_depth, links_seen, vis_graph, vis_origin, urlVars>>

\* _setup_db: duckdb.Error, the process exits.
SetupDbError ==
    /\ pc = "idle"
    /\ pc' = "exited"
    /\ db' = <<>>
    /\ UNCHANGED <<urlVars, crawlVars, vis_graph, vis_origin>>

\* One iteration of the while loop that ends at the continue of line 86.
CrawlSkip ==
    /\ pc = "crawl"
    /\ urls_to_visit # <<>>
    /\ LET p == PopLeft(urls_to_visit)
           current_url == p[1][1]
           current_depth == p[1][2]
       IN /\ ShouldSkip(current_url, current_depth)
          /\ urls_to_visit' = p[2]
          /\ dequeued_depth' = current_depth
    /\ UNCHANGED <<pc, max_depth, visited_urls, graph, db, fetch_log, failed,
                   links_seen, vis_graph, vis_origin, urlVars>>

\* One full iteration of the while loop: lines 82-112.
CrawlVisit(resp, dbOk) ==
    /\ pc = "crawl"
    /\ urls_to_visit # <<>>
    /\ links_seen + Len(resp.links) <= MaxWebLinks
    /\ (resp.links = <<>> => dbOk)
    /\ LET p == PopLeft(urls_to_visit)
           current_url == p[1][1]
           current_depth == p[1][2]
           visited == visited_urls \cup {current_url}
           g1 == AddNode(graph, current_url, current_depth)
           out == FetchOutcome(resp)
           st == ForLinks(out.links, current_url, current_depth, visited,
                          [graph |-> g1, rows |-> <<>>, queue |-> p[2]])
       IN /\ ~ShouldSkip(current_url, current_depth)
          /\ links_seen' = links_seen + Len(resp.links)
          /\ visited_urls' = visited
          /\ dequeued_depth' = current_depth
          /\ fetch_log' = Append(fetch_log, current_url)
          /\ failed' = IF resp.ok THEN failed ELSE failed \cup {current_url}
          /\ IF out.raised
             THEN /\ pc' = "aborted"
                  /\ graph' = g1
                  /\ urls_to_visit' = p[2]
                  /\ db' = db
             ELSE /\ pc' = pc
                  /\ graph' = st.graph
                  /\ urls_to_visit' = st.queue
                  /\ db' = IF dbOk THEN db \o st.rows ELSE db
    /\ UNCHANGED <<max_depth, vis_graph, vis_origin, urlVars>>

\* The while condition fails: lines 114-116.
CrawlFinish ==
    /\ pc = "crawl"
    /\ urls_to_visit = <<>>
    /\ pc' = "done"
    /\ UNCHANGED <<urlVars, crawlVars, db, vis_graph, vis_origin>>

\* visualize_from_db.py: create_graph_from_duckdb(DB_FILE, START_URL), on the
\* table found on disk or on the one a finished crawl left.
Visualize ==
    /\ pc \in {"idle", "done"}
    /\ pc' = "shown"
    /\ vis_graph' = CreateGraph(db, START_URL)
    /\ vis_origin' = IF pc = "done" THEN "crawl" ELSE "stored"
    /\ UNCHANGED <<urlVars, crawlVars, db>>

\* lines 77-79: duckdb.Error, None is returned.
VisualizeDbError ==
    /\ pc \in {"idle", "done"}
    /\ pc' = "shown"
    /\ vis_graph' = NoGraph
    /\ vis_origin' = IF pc = "done" THEN "crawl" ELSE "stored"
    /\ UNCHANGED <<urlVars, crawlVars, db>>

Next ==
    \/ \E md \in 0..MAX_CRAWL_DEPTH : StartCrawl(md)
    \/ SetupDbError
    \/ CrawlSkip
    \/ \E resp \in Responses, dbOk \in BOOLEAN : CrawlVisit(resp, dbOk)
    \/ CrawlFinish
    \/ Visualize
    \/ VisualizeDbError

Spec == Init /\ [][Next]_vars

\* An iteration, or the exit, of the while loop of crawl().
CrawlLoop ==
    \/ CrawlSkip
    \/ \E resp \in Responses, dbOk \in BOOLEAN : CrawlVisit(resp, dbOk)
    \/ CrawlFinish

\* No DB file on disk: the crawl removes it before it starts (lines 139-141),
\* so what it held plays no part in the crawl.
FreshInit == Init /\ db = <<>>

\* The loop is a single thread that keeps running once crawl() is called:
\* its next step is not postponed forever.
FairSpec == FreshInit /\ [][Next]_vars /\ WF_vars(CrawlLoop)

\* create_graph_from_duckdb alone, on any table found on disk.
AsmNext == Visualize \/ VisualizeDbError

AsmSpec == Init /\ [][AsmNext]_vars

\* get_links_from_single_page on a fetched page (scrape_rps.py lines 21-34;
\* the same lines are in scrape_to_duckdb.py and _get_links_from_page).
ExtractLinks ==
    /\ pc = "idle"
    /\ pc' = "extracted"
    /\ page_links' = GetLinks(page_url, page_hrefs)
    /\ UNCHANGED <<crawlVars, db, vis_graph, vis_origin, page_url, page_hrefs>>

\* lines 13-19: RequestException, [] is returned.
ExtractFetchError ==
    /\ pc = "idle"
    /\ pc' = "fetch_failed"
    /\ page_links' = {}
    /\ UNCHANGED <<crawlVars, db, vis_graph, vis_origin, page_url, page_hrefs>>

\* A page with any <a> tags, nothing else run.
UrlInit ==
    /\ pc = "idle"
    /\ max_depth = 0
    /\ visited_urls = {}
    /\ urls_to_visit = <<>>
    /\ graph = EmptyGraph
    /\ db = <<>>
    /\ fetch_log = <<>>
    /\ failed = {}
    /\ dequeued_depth = 0
    /\ links_seen = 0
    /\ vis_graph = EmptyGraph
    /\ vis_origin = "none"
    /\ page_url \in PageUrls
    /\ page_hrefs \in SeqsUpTo(Hrefs, MaxHrefs)
    /\ page_links = {}

UrlNext == ExtractLinks \/ ExtractFetchError

UrlSpec == UrlInit /\ [][UrlNext]_vars

\* ------------------------------------------------- vocabulary of the claims
Range(f) == {f[i] : i \in DOMAIN f}

Crawled == {n \in Nodes(graph) : graph.depth[n] # NoDepth}

TimesFetched(u) == Cardinality({i \in 1..Len(fetch_log) : fetch_log[i] = u})

\* Nodes of g at most k hops from the seed along g's edges.
RECURSIVE WithinHops(_, _)
WithinHops(g, k) ==
    IF k = 0 THEN {START_URL} \cap Nodes(g)
    ELSE LET r == WithinHops(g, k - 1)
         IN r \cup {e[2] : e \in {x \in Edges(g) : x[1] \in r}}

Assembled == vis_origin # "none" /\ ~vis_graph.none

EdgeDepthsOk(g) == \A e \in Edges(g) : g.depth[e[2]] <= g.depth[e[1]] + 1

MinOf(S) == CHOOSE m \in S : \A x \in S : m <= x

Pairs(data) == {<<data[i][1], data[i][2]>> : i \in 1..Len(data)}

\* data without the rows whose (source, target) occurred earlier in it.
FirstOccurrences(data) ==
    LET keep == {i \in 1..Len(data) :
                    \A j \in 1..(i - 1) : <<data[j][1], data[j][2]>> # <<data[i][1], data[i][2]>>}
        RECURSIVE Pick(_)
        Pick(i) == IF i > Len(data) THEN <<>>
                   ELSE IF i \in keep THEN <<data[i]>> \o Pick(i + 1) ELSE Pick(i + 1)
    IN Pick(1)

\* ------------------------------------------------------------------ C1
\* C1: every URL is passed to _get_links_from_page at most once during a
\* crawl, however often it is discovered and appended.
C1_FetchedAtMostOnce == \A u \in URLs : TimesFetched(u) <= 1

\* A fetched URL that still has a second entry waiting in the deque.
C1_Witness ==
    \E i \in 1..Len(urls_to_visit) :
        /\ TimesFetched(urls_to_visit[i][1]) = 1
        /\ urls_to_visit[i][1] # START_URL

\* ------------------------------------------------------------------ C2
\* C2 as stated: urls_to_visit and visited_urls are disjoint in every state.
C2_PendingVisitedDisjoint ==
    \A i \in 1..Len(urls_to_visit) : urls_to_visit[i][1] \notin visited_urls

\* C2 as amended: an entry is appended to urls_to_visit only for a URL that is
\* not in visited_urls at that moment (an entry appended earlier may remain
\* after its URL was visited).
C2_NoVisitedUrlAppended ==
    [][(pc = "crawl" /\ pc' = "crawl") =>
          \A i \in Len(urls_to_visit)..Len(urls_to_visit') :
              urls_to_visit'[i][1] \notin visited_urls']_vars

\* A pending entry, within the depth limit, whose URL has been visited since.
C2_Witness ==
    /\ pc = "crawl"
    /\ \E i \in 1..Len(urls_to_visit) :
          /\ urls_to_visit[i][1] \in visited_urls
          /\ urls_to_visit[i][2] <= max_depth

\* ------------------------------------------------------------------ C3
\* C3 as stated: when the crawl finishes, every node of the graph is at most
\* max_depth hops from the seed.
C3_NoNodeBeyondMaxDepth ==
    pc = "done" => Nodes(graph) \subseteq WithinHops(graph, max_depth)

\* C3 as amended: when the crawl finishes, every node of the graph is at most
\* max_depth + 1 hops from the seed, every node with a depth attribute (a
\* crawled page) at most max_depth hops, and every edge leaves a crawled page.
C3_NodesWithinMaxDepthPlusOne ==
    pc = "done" =>
        /\ Nodes(graph) \subseteq WithinHops(graph, max_depth + 1)
        /\ Crawled \subseteq WithinHops(graph, max_depth)
        /\ \A e \in Edges(graph) : e[1] \in Crawled

\* The example: seed 1, max_depth 1, page 1 links to 2 and 3, page 2 to 4.
C3_Witness ==
    /\ pc = "done"
    /\ max_depth = 1
    /\ failed = {}
    /\ Range(fetch_log) = {1, 2, 3}
    /\ Nodes(graph) = {1, 2, 3, 4}
    /\ Edges(graph) = {<<1, 2>>, <<1, 3>>, <<2, 4>>}

\* ------------------------------------------------------------------ C4
\* C4 as stated: for any stored rows, every edge (s, t) of the assembled graph
\* has depth(t) <= depth(s) + 1.
C4_EdgeDepthsAnyRows == Assembled => EdgeDepthsOk(vis_graph)

\* C4 as amended: for the rows a crawl wrote, read in insertion order, every
\* edge (s, t) of the assembled graph has depth(t) <= depth(s) + 1.
C4_EdgeDepthsCrawlRows ==
    (Assembled /\ vis_origin = "crawl") => EdgeDepthsOk(vis_graph)

\* A graph assembled from a crawl's rows in which a page reached at depth 2
\* links back to a node of depth 1.
C4_Witness ==
    /\ Assembled
    /\ vis_origin = "crawl"
    /\ \E e \in Edges(vis_graph) :
          vis_graph.depth[e[1]] = 2 /\ vis_graph.depth[e[2]] = 1

\* ------------------------------------------------------------------ C5
\* C5: in the assembled graph the seed has depth 0 and every other node that
\* occurs as a target has depth min(crawl_depth + 1) over the rows naming it
\* as target, whatever the order of the rows.
C5_TrueMinimumDepth ==
    Assembled =>
        /\ (HasNode(vis_graph, START_URL) => vis_graph.depth[START_URL] = 0)
        /\ \A n \in Nodes(vis_graph) \ {START_URL} :
              LET ds == {CrawlDepth(db[i]) + 1 : i \in {j \in 1..Len(db) : db[j][2] = n}}
              IN ds # {} => vis_graph.depth[n] = MinOf(ds)

\* ------------------------------------------------------------------ C6
\* C6: repeated (source, target) rows give exactly one edge for the pair, and
\* the same edges as the rows without the repeats.
C6_DuplicateRowsCollapse ==
    Assembled =>
        /\ \A pr \in Pairs(db) :
              Cardinality({i \in 1..Len(vis_graph.adj) : vis_graph.adj[i] = pr}) = 1
        /\ Edges(vis_graph) = Pairs(db)
        /\ vis_graph.adj = CreateGraph(FirstOccurrences(db), START_URL).adj

\* A table holding the same (source, target) three times beside another pair.
C6_Witness ==
    /\ Assembled
    /\ Len(db) = 3
    /\ Cardinality(Pairs(db)) = 1
    /\ Len(vis_graph.adj) = 1

\* ------------------------------------------------------------------ C7
\* C7: the depths of successively dequeued entries never decrease.
C7_DequeueDepthNeverDecreases ==
    [][pc = "crawl" => dequeued_depth' >= dequeued_depth]_vars

\* Entries of two depths are pending after an entry of depth >= 1 was dequeued.
C7_Witness ==
    /\ pc = "crawl"
    /\ dequeued_depth >= 1
    /\ \E i, j \in 1..Len(urls_to_visit) : urls_to_visit[i][2] < urls_to_visit[j][2]

\* ------------------------------------------------------------------ C8
\* C8: after a failed fetch the loop goes on, the failed page contributes no
\* edge, and when the crawl finishes every link found within the depth limit
\* has been fetched.
C8_FailedFetchDoesNotAbort ==
    /\ (failed # {} /\ urls_to_visit # <<>>) => pc = "crawl"
    /\ \A u \in failed :
          /\ \A e \in Edges(graph) : e[1] # u
          /\ pc \in {"crawl", "done"} => \A i \in 1..Len(db) : db[i][1] # u
    /\ pc \in {"done", "aborted"} =>
          \A e \in Edges(graph) :
              graph.depth[e[1]] + 1 <= max_depth => TimesFetched(e[2]) = 1

\* The crawl finished, and a sibling of a failed page was fetched after it.
C8_Witness ==
    /\ pc = "done"
    /\ \E i, j \in 1..Len(fetch_log) :
          /\ i < j
          /\ fetch_log[i] \in failed
          /\ fetch_log[j] \notin failed
          /\ graph.depth[fetch_log[i]] = graph.depth[fetch_log[j]]

\* ------------------------------------------------------------------ C9
\* C9: a started crawl reaches the end of crawl(), and it leaves the loop
\* exactly when urls_to_visit is empty.
C9_Terminates ==
    /\ (pc = "crawl") ~> (pc = "done")
    /\ [][pc = "crawl" => ((pc' = "done") <=> (urls_to_visit = <<>>))]_vars

\* A finished crawl over pages with a self-link and a two-page cycle.
C9_Witness ==
    /\ pc = "done"
    /\ \E e \in Edges(graph) : e[1] = e[2]
    /\ \E e \in Edges(graph) : e[1] # e[2] /\ <<e[2], e[1]>> \in Edges(graph)

\* ----------------------------------------------------------------- C10
\* C10: nothing is fetched, visited or recorded with a depth above max_depth,
\* and a crawled page's depth is its number of hops from the seed along the
\* crawled pages that led to it.
C10_DepthBounded ==
    /\ Range(fetch_log) = visited_urls
    /\ Crawled = visited_urls
    /\ \A u \in visited_urls : graph.depth[u] \in 0..max_depth
    /\ START_URL \in visited_urls => graph.depth[START_URL] = 0
    /\ \A u \in visited_urls \ {START_URL} :
          \E p \in visited_urls :
              /\ <<p, u>> \in Edges(graph)
              /\ graph.depth[p] = graph.depth[u] - 1

\* A page was crawled at depth max_depth = 2 and a deeper entry was dropped.
C10_Witness ==
    /\ max_depth = 2
    /\ dequeued_depth > max_depth
    /\ \E u \in visited_urls : graph.depth[u] = max_depth

\* ----------------------------------------------------------------- C11
\* C11 as stated: urls_to_visit holds at most one entry per URL and no entry
\* with a depth above max_depth.
C11_OneEntryPerUrlWithinDepth ==
    /\ \A i, j \in 1..Len(urls_to_visit) :
          i # j => urls_to_visit[i][1] # urls_to_visit[j][1]
    /\ \A i \in 1..Len(urls_to_visit) : urls_to_visit[i][2] <= max_depth

\* C11 as amended: the append tests visited_urls only, so urls_to_visit can
\* hold several entries for a URL and entries of depth max_depth + 1, never
\* deeper; the gate is at the dequeue: an entry whose URL is visited or whose
\* depth is above max_depth is dropped without a fetch and without an append.
C11_GateAtDequeue ==
    /\ [](\A i \in 1..Len(urls_to_visit) :
            urls_to_visit[i][2] \in 0..(max_depth + 1))
    /\ [][(/\ pc = "crawl"
           /\ urls_to_visit # <<>>
           /\ \/ urls_to_visit[1][1] \in visited_urls
              \/ urls_to_visit[1][2] > max_depth)
          => /\ fetch_log' = fetch_log
             /\ visited_urls' = visited_urls
             /\ urls_to_visit' = Tail(urls_to_visit)]_vars

\* Two pending entries for one URL, one of them deeper than max_depth.
C11_Witness ==
    /\ pc = "crawl"
    /\ \E i, j \in 1..Len(urls_to_visit) :
          /\ i # j
          /\ urls_to_visit[i][1] = urls_to_visit[j][1]
          /\ urls_to_visit[j][2] = max_depth + 1

\* ----------------------------------------------------------------- C12
\* C12: every returned link has an empty fragment, is http or https with a
\* non-empty host, and two hrefs that differ only in their fragment give the
\* same returned link, also when the path is empty.
C12_FragmentStripped ==
    pc = "extracted" =>
        /\ \A l \in page_links :
              /\ l.fragment = ""
              /\ l.scheme \in {"http", "https"}
              /\ l.host # ""
        /\ \A i, j \in 1..Len(page_hrefs) :
              [page_hrefs[i] EXCEPT !.fragment = ""] = [page_hrefs[j] EXCEPT !.fragment = ""]
                  => ExtractLink(page_url, page_hrefs[i]) = ExtractLink(page_url, page_hrefs[j])

====
